---- MODULE Spec2Model ----
(***************************************************************************)
(* A model of package madhatter (src/madhatter.go): chains of middleware   *)
(* constructors, their composition with a terminal handler (Then,          *)
(* ThenFunc), their extension (Append), and the root handler that gives    *)
(* every request a cancellable context.                                    *)
(*                                                                         *)
(* Go slices are modelled with their backing arrays: heap is the sequence  *)
(* of allocated arrays, a slice is [arr, len] with arr = 0 for nil, and    *)
(* the capacity of a slice is the length of its array.  Handlers are       *)
(* terms <<kind, name, inner>>.  A request is a call stack of frames that  *)
(* advances one handler entry or one handler return at a time, so that     *)
(* requests interleave.                                                    *)
(***************************************************************************)
EXTENDS Integers, Sequences, FiniteSets, TLC

VARIABLES heap, callerArrs, chains, composed, invoked, ctxs, reqs

vars == <<heap, callerArrs, chains, composed, invoked, ctxs, reqs>>

(***************************************************************************)
(* Bounds of the model.                                                    *)
(***************************************************************************)
\* the number of calls a program makes under Spec: New, Append, Then,
\* ThenFunc, a declaration of a zero value Chain, a write to a slice
MaxCalls == 4
\* and under SpecServe: New, Append, Then, ThenFunc, a request served
ServeMaxCalls == 5

(***************************************************************************)
(* The inputs: middleware constructors and terminal handlers.              *)
(***************************************************************************)
\* tagMiddleware("t1\n"), tagMiddleware("t2\n"), tagMiddleware("t3\n")
Tags == {"t1", "t2", "t3"}
\* a constructor whose wrapper answers by itself and never calls its inner handler
Gates == {"gate"}
Constructors == Tags \cup Gates
\* the zero value of type Constructor, held by the unused cells of an array
NilConstructor == "nil"

\* functions of type HandlerFunc; "nil" is the nil function value
NilFunc == "nil"
Funcs == {"testApp", "app2", "panicApp"}

\* the argument lists of New and Append under Spec, which looks at the
\* storage of chains
ArgLists == {<<>>, <<"t1">>, <<"gate">>, <<"t1", "gate">>}
\* and under SpecServe, which looks at the requests
ServeNewLists == {<<>>, <<"t1", "t2">>, <<"t1", "t2", "t3">>, <<"t1", "gate", "t2">>}
ServeAppendLists == {<<"t3">>}

\* whether append leaves a spare cell behind the elements of a new array
Slacks == {0, 1}

(***************************************************************************)
(* Handler values.                                                         *)
(***************************************************************************)
Kind(h) == h[1]
Name(h) == h[2]
Inner(h) == h[3]

\* the nil Handler interface value
NilHandler == <<"nil", "nil", <<>>>>

\* HandlerFunc(fn) as a Handler: a non-nil interface value even when fn is nil
HandlerFunc(fn) == <<"HandlerFunc", fn, <<>>>>

\* adaptFinal(http.DefaultServeMux)
adaptFinal(mux) == <<"adaptFinal", mux, <<>>>>

\* what a call yields when it panics instead of returning a handler: the
\* call of a nil function
PanicValue == <<"panic", "nil func call", <<>>>>

\* c(inner): the wrapper a constructor returns, a closure over the inner
\* handler; the call of a nil Constructor panics
Construct(c, inner) ==
    IF c = NilConstructor THEN PanicValue ELSE <<"mw", c, inner>>

\* createRootHandler(h): the http.Handler closure over h
createRootHandler(h) == <<"root", "createRootHandler", h>>

\* the terminal handlers given under Spec
HandlerArgs == {NilHandler, HandlerFunc("testApp"), HandlerFunc(NilFunc)}
FuncArgs == {"testApp", NilFunc}
\* the terminal handlers given under SpecServe
ServeHandlerArgs == {NilHandler, HandlerFunc("testApp"), HandlerFunc("panicApp")}
ServeFuncArgs == {"app2"}

(***************************************************************************)
(* Slices.                                                                 *)
(***************************************************************************)
NilSlice == [arr |-> 0, len |-> 0]

Elems(hp, s) == IF s.arr = 0 THEN <<>> ELSE SubSeq(hp[s.arr], 1, s.len)

Cap(hp, s) == IF s.arr = 0 THEN 0 ELSE Len(hp[s.arr])

Zeros(n) == [i \in 1..n |-> NilConstructor]

\* append(s, xs...): in place when the capacity allows, else into a new array
\* of capacity len+slack (the growth is the implementation's choice)
GoAppend(hp, s, xs, slack) ==
    IF Len(xs) = 0 THEN [heap |-> hp, slice |-> s]
    ELSE IF s.len + Len(xs) <= Cap(hp, s)
    THEN [heap |-> [hp EXCEPT ![s.arr] =
                        [i \in 1..Len(hp[s.arr]) |->
                            IF i > s.len /\ i <= s.len + Len(xs)
                            THEN xs[i - s.len] ELSE hp[s.arr][i]]],
          slice |-> [arr |-> s.arr, len |-> s.len + Len(xs)]]
    ELSE [heap |-> Append(hp, Elems(hp, s) \o xs \o Zeros(slack)),
          slice |-> [arr |-> Len(hp) + 1, len |-> s.len + Len(xs)]]

\* make([]Constructor, n); a slice of length 0 has no cell to share or to
\* write and is modelled like nil
GoMake(hp, n) ==
    IF n = 0 THEN [heap |-> hp, slice |-> NilSlice]
    ELSE [heap |-> Append(hp, Zeros(n)), slice |-> [arr |-> Len(hp) + 1, len |-> n]]

\* copy(dst[off:], src) for a dst long enough
GoCopy(hp, dst, off, src) ==
    IF Len(src) = 0 THEN hp
    ELSE [hp EXCEPT ![dst.arr] =
             [i \in 1..Len(hp[dst.arr]) |->
                 IF i > off /\ i <= off + Len(src) THEN src[i - off] ELSE hp[dst.arr][i]]]

(***************************************************************************)
(* Chain: New, Append, Then, ThenFunc as functions of the heap.            *)
(***************************************************************************)
\* the finalize field: createRootHandler, or nil in the zero value Chain{}
RootFinalizer == "createRootHandler"
NilFinalizer == "nil"

\* the zero value of type Chain (var c Chain)
ZeroValueChain == [constructors |-> NilSlice, finalize |-> NilFinalizer]

\* New keeping the caller's slice instead of copying it
MutNewAlias(hp, args, slack) ==
    [heap |-> hp, chain |-> [constructors |-> args, finalize |-> RootFinalizer]]

\* New(constructors...): the chain's sequence is appended to a nil slice
New(hp, args, slack) ==
    LET a == GoAppend(hp, NilSlice, Elems(hp, args), slack)
    IN [heap |-> a.heap,
        chain |-> [constructors |-> a.slice, finalize |-> RootFinalizer]]

\* Append appending to the receiver's own slice
MutAppendInPlace(hp, c, args, slack) ==
    LET a == GoAppend(hp, c.constructors, Elems(hp, args), slack)
    IN [heap |-> a.heap,
        chain |-> [constructors |-> a.slice, finalize |-> RootFinalizer]]

\* Append copying the receiver's finalize field instead of going through New
MutAppendKeepsFinalizer(hp, c, args, slack) ==
    LET m == GoMake(hp, c.constructors.len + args.len)
        h1 == GoCopy(m.heap, m.slice, 0, Elems(m.heap, c.constructors))
        h2 == GoCopy(h1, m.slice, c.constructors.len, Elems(h1, args))
    IN [heap |-> h2, chain |-> [constructors |-> m.slice, finalize |-> c.finalize]]

\* c.Append(constructors...)
ChainAppend(hp, c, args, slack) ==
    LET m == GoMake(hp, c.constructors.len + args.len)
        h1 == GoCopy(m.heap, m.slice, 0, Elems(m.heap, c.constructors))
        h2 == GoCopy(h1, m.slice, c.constructors.len, Elems(h1, args))
    IN New(h2, m.slice, slack)

\* the terminal step of Then: nil is http.DefaultServeMux
ResolveFinal(h) == IF h # NilHandler THEN h ELSE adaptFinal("DefaultServeMux")

Reverse(q) == [j \in 1..Len(q) |-> q[Len(q) + 1 - j]]

\* the loop of Then running from the first constructor to the last
RECURSIVE MutThenLoopForward(_, _, _, _)
MutThenLoopForward(cons, i, final, calls) ==
    IF i >= 1
    THEN IF Construct(cons[Len(cons) + 1 - i], final) = PanicValue
         THEN [final |-> PanicValue, calls |-> calls]
         ELSE MutThenLoopForward(cons, i - 1, Construct(cons[Len(cons) + 1 - i], final),
                                 Append(calls, cons[Len(cons) + 1 - i]))
    ELSE [final |-> final, calls |-> calls]

\* the loop of Then stopping one short of the first constructor
RECURSIVE MutThenLoopSkipFirst(_, _, _, _)
MutThenLoopSkipFirst(cons, i, final, calls) ==
    IF i > 1
    THEN IF Construct(cons[i], final) = PanicValue
         THEN [final |-> PanicValue, calls |-> calls]
         ELSE MutThenLoopSkipFirst(cons, i - 1, Construct(cons[i], final),
                                   Append(calls, cons[i]))
    ELSE [final |-> final, calls |-> calls]

RECURSIVE ThenLoop(_, _, _, _)
\* the loop of Then, from index i down to the first constructor; calls is the
\* sequence of constructors invoked so far.  The call of a nil constructor
\* panics: the loop ends there and Then returns nothing
ThenLoop(cons, i, final, calls) ==
    IF i >= 1
    THEN IF Construct(cons[i], final) = PanicValue
         THEN [final |-> PanicValue, calls |-> calls]
         ELSE ThenLoop(cons, i - 1, Construct(cons[i], final), Append(calls, cons[i]))
    ELSE [final |-> final, calls |-> calls]

\* c.finalize(final), reached when the loop has not panicked; calling the nil
\* function of a zero value Chain panics
Finalize(fin, final) ==
    IF final = PanicValue THEN PanicValue
    ELSE IF fin = RootFinalizer THEN createRootHandler(final) ELSE PanicValue

\* Then finalizing the terminal handler instead of the wrapped one
MutThenFinalizeTerminal(hp, c, h) ==
    LET cons == Elems(hp, c.constructors)
        r == ThenLoop(cons, Len(cons), ResolveFinal(h), <<>>)
    IN [handler |-> IF r.final = PanicValue THEN PanicValue
                    ELSE Finalize(c.finalize, ResolveFinal(h)),
        calls |-> r.calls]

\* c.Then(h): the handler returned and the constructors invoked on the way
Then(hp, c, h) ==
    LET cons == Elems(hp, c.constructors)
        r == ThenLoop(cons, Len(cons), ResolveFinal(h), <<>>)
    IN [handler |-> Finalize(c.finalize, r.final), calls |-> r.calls]

\* ThenFunc without its nil check
MutThenFuncNoNilCheck(hp, c, fn) == Then(hp, c, HandlerFunc(fn))

\* c.ThenFunc(fn)
ThenFunc(hp, c, fn) ==
    IF fn = NilFunc THEN Then(hp, c, NilHandler) ELSE Then(hp, c, HandlerFunc(fn))

(***************************************************************************)
(* The calls a program makes on chains.  An entry of chains carries, beside*)
(* the Chain value c, how it was made: origin, the receiver's index (recv), *)
(* the constructors given (args) and the array of the caller's slice that  *)
(* held them (from).                                                       *)
(***************************************************************************)
\* the caller's argument slice: a slice literal (or the variadic call's own)
CallerSlice(hp, xs) ==
    IF Len(xs) = 0 THEN [heap |-> hp, slice |-> NilSlice]
    ELSE [heap |-> Append(hp, xs), slice |-> [arr |-> Len(hp) + 1, len |-> Len(xs)]]

CallNew(xs, slack) ==
    /\ LET a == CallerSlice(heap, xs)
           n == New(a.heap, a.slice, slack)
       IN /\ heap' = n.heap
          /\ callerArrs' = callerArrs \cup (IF a.slice.arr = 0 THEN {} ELSE {a.slice.arr})
          /\ chains' = Append(chains, [c |-> n.chain, origin |-> "New", recv |-> 0,
                                    args |-> xs, from |-> a.slice.arr])
    /\ UNCHANGED <<composed, invoked, ctxs, reqs>>

DeclareZero ==
    /\ chains' = Append(chains, [c |-> ZeroValueChain, origin |-> "zero", recv |-> 0,
                               args |-> <<>>, from |-> 0])
    /\ UNCHANGED <<heap, callerArrs, composed, invoked, ctxs, reqs>>

CallAppend(i, xs, slack) ==
    /\ i \in 1..Len(chains)
    /\ LET a == CallerSlice(heap, xs)
           n == ChainAppend(a.heap, chains[i].c, a.slice, slack)
       IN /\ heap' = n.heap
          /\ callerArrs' = callerArrs \cup (IF a.slice.arr = 0 THEN {} ELSE {a.slice.arr})
          /\ chains' = Append(chains, [c |-> n.chain, origin |-> "Append", recv |-> i,
                                    args |-> xs, from |-> a.slice.arr])
    /\ UNCHANGED <<composed, invoked, ctxs, reqs>>

\* the number of elements of its slices the caller has overwritten
Overwritten(hp) ==
    LET RECURSIVE count(_)
        count(S) == IF S = {} THEN 0
                    ELSE LET a == CHOOSE x \in S : TRUE
                         IN Cardinality({j \in 1..Len(hp[a]) : hp[a][j] = NilConstructor})
                            + count(S \ {a})
    IN count(callerArrs)

\* the caller overwrites an element of a slice it passed to New or Append
CallerOverwrite(a, j) ==
    /\ a \in callerArrs
    /\ j \in 1..Len(heap[a])
    /\ heap[a][j] # NilConstructor
    /\ heap' = [heap EXCEPT ![a][j] = NilConstructor]
    /\ UNCHANGED <<callerArrs, chains, composed, invoked, ctxs, reqs>>

Logged(k, calls) == [j \in 1..Len(calls) |-> [call |-> k, con |-> calls[j]]]

CallThen(i, h) ==
    /\ i \in 1..Len(chains)
    /\ LET t == Then(heap, chains[i].c, h)
       IN /\ composed' = Append(composed,
                 [chain |-> i, via |-> "Then", arg |-> h, handler |-> t.handler])
          /\ invoked' = invoked \o Logged(Len(composed) + 1, t.calls)
    /\ UNCHANGED <<heap, callerArrs, chains, ctxs, reqs>>

CallThenFunc(i, fn) ==
    /\ i \in 1..Len(chains)
    /\ LET t == ThenFunc(heap, chains[i].c, fn)
       IN /\ composed' = Append(composed,
                 [chain |-> i, via |-> "ThenFunc", arg |-> HandlerFunc(fn), handler |-> t.handler])
          /\ invoked' = invoked \o Logged(Len(composed) + 1, t.calls)
    /\ UNCHANGED <<heap, callerArrs, chains, ctxs, reqs>>

(***************************************************************************)
(* Serving a request.  ctxs[id] is TRUE once context id is cancelled.  A   *)
(* frame is a handler being executed: pc "enter" before its body has run,  *)
(* "wait" while the handler it called runs; tag is the value under key     *)
(* "tag" of the context the frame was called with.                         *)
(***************************************************************************)
EmptyResp == [code |-> 0, ctype |-> "", body |-> <<>>]

\* one context made once and used by every request
MutWithCancelShared(cs) ==
    IF Len(cs) = 0 THEN [ctxs |-> <<FALSE>>, id |-> 1] ELSE [ctxs |-> cs, id |-> 1]

\* context.WithCancel(context.Background()): a fresh, uncancelled context
WithCancel(cs) == [ctxs |-> Append(cs, FALSE), id |-> Len(cs) + 1]

\* cancel() called after h.ServeHTTP returns, without defer
MutCancelNoDefer(cs, id, panicking) ==
    IF panicking THEN cs ELSE [cs EXCEPT ![id] = TRUE]

\* the deferred cancel() of the root handler; it runs on return and on panic
DeferredCancel(cs, id, panicking) == [cs EXCEPT ![id] = TRUE]

Frame(h, tag, pc) == [h |-> h, tag |-> tag, pc |-> pc]

Top(r) == r.stack[Len(r.stack)]
Pop(st) == SubSeq(st, 1, Len(st) - 1)

\* the transport calls the composed handler: the root handler makes the
\* context, defers its cancellation and calls the wrapped handler
Serve(k) ==
    /\ k \in 1..Len(composed)
    /\ Kind(composed[k].handler) = "root"
    /\ LET root == composed[k].handler
           c == WithCancel(ctxs)
       IN /\ ctxs' = c.ctxs
          /\ reqs' = Append(reqs,
                [h |-> k, ctx |-> c.id, status |-> "running",
                 stack |-> <<Frame(root, <<>>, "wait"), Frame(Inner(root), <<>>, "enter")>>,
                 events |-> <<>>, resp |-> EmptyResp])
    /\ UNCHANGED <<heap, callerArrs, chains, composed, invoked>>

\* testApp and its like: w.Write(existingTag + name)
WriteBody(resp, tag, name) ==
    [resp EXCEPT !.code = IF @ = 0 THEN 200 ELSE @, !.body = @ \o tag \o <<name>>]

\* http.DefaultServeMux with no route registered: http.NotFound
ServeMux(resp) ==
    [code |-> 404, ctype |-> "text/plain; charset=utf-8", body |-> <<"404 page not found">>]

\* a gate's own answer
Deny(resp) == [resp EXCEPT !.code = 401]

\* the handler on top of the stack starts
Enter(i) ==
    /\ i \in 1..Len(reqs)
    /\ reqs[i].status = "running"
    /\ Top(reqs[i]).pc = "enter"
    /\ LET r == reqs[i]
           f == Top(r)
           n == Len(r.stack)
       IN reqs' = [reqs EXCEPT ![i] =
            CASE Kind(f.h) = "mw" /\ Name(f.h) \in Tags ->
                   \* tagMiddleware: ctx = WithValue(ctx, "tag", existingTag+tag); h.ServeHTTP(ctx, w, r)
                   [r EXCEPT !.events = Append(@, <<"pre", Name(f.h)>>),
                             !.stack = Append([@ EXCEPT ![n].pc = "wait"],
                                              Frame(Inner(f.h), Append(f.tag, Name(f.h)), "enter"))]
              [] Kind(f.h) = "mw" /\ Name(f.h) \in Gates ->
                   \* answers and returns without calling its inner handler
                   [r EXCEPT !.events = Append(@, <<"deny", Name(f.h)>>),
                             !.resp = Deny(@),
                             !.stack = Pop(@)]
              [] Kind(f.h) = "HandlerFunc" /\ Name(f.h) \in {"testApp", "app2"} ->
                   [r EXCEPT !.events = Append(@, <<"serve", Name(f.h)>>),
                             !.resp = WriteBody(@, f.tag, Name(f.h)),
                             !.stack = Pop(@)]
              [] Kind(f.h) = "adaptFinal" ->
                   [r EXCEPT !.events = Append(@, <<"serve", Name(f.h)>>),
                             !.resp = ServeMux(@),
                             !.stack = Pop(@)]
              [] OTHER ->
                   \* panicApp panics; a nil HandlerFunc is a nil function call
                   [r EXCEPT !.events = Append(@, <<"panic", Name(f.h)>>),
                             !.status = "unwinding",
                             !.stack = Pop(@)]]
    /\ UNCHANGED <<heap, callerArrs, chains, composed, invoked, ctxs>>

\* the handler called by the top frame has returned
Resume(i) ==
    /\ i \in 1..Len(reqs)
    /\ reqs[i].status = "running"
    /\ Top(reqs[i]).pc = "wait"
    /\ LET r == reqs[i]
           f == Top(r)
       IN IF Kind(f.h) = "root"
          THEN /\ ctxs' = DeferredCancel(ctxs, r.ctx, FALSE)
               /\ reqs' = [reqs EXCEPT ![i] = [r EXCEPT !.status = "done", !.stack = Pop(@)]]
          ELSE /\ ctxs' = ctxs
               /\ reqs' = [reqs EXCEPT ![i] =
                              [r EXCEPT !.events = Append(@, <<"post", Name(f.h)>>),
                                        !.stack = Pop(@)]]
    /\ UNCHANGED <<heap, callerArrs, chains, composed, invoked>>

\* a panic unwinds one frame: a wrapper has no deferred call and is left at
\* once, the root handler runs its deferred cancel and the panic goes on to
\* the transport
Unwind(i) ==
    /\ i \in 1..Len(reqs)
    /\ reqs[i].status = "unwinding"
    /\ LET r == reqs[i]
           f == Top(r)
       IN IF Kind(f.h) = "root"
          THEN /\ ctxs' = DeferredCancel(ctxs, r.ctx, TRUE)
               /\ reqs' = [reqs EXCEPT ![i] = [r EXCEPT !.status = "panicked", !.stack = Pop(@)]]
          ELSE /\ ctxs' = ctxs
               /\ reqs' = [reqs EXCEPT ![i] = [r EXCEPT !.stack = Pop(@)]]
    /\ UNCHANGED <<heap, callerArrs, chains, composed, invoked>>

(***************************************************************************)
(* The specification.                                                      *)
(***************************************************************************)
Init ==
    /\ heap = <<>>
    /\ callerArrs = {}
    /\ chains = <<>>
    /\ composed = <<>>
    /\ invoked = <<>>
    /\ ctxs = <<>>
    /\ reqs = <<>>

ChainIds == 1..Len(chains)
ComposedIds == 1..Len(composed)
ReqIds == 1..Len(reqs)

\* the calls made so far
Calls == Len(chains) + Len(composed) + Len(reqs) + Overwritten(heap)

\* Spec: the calls on chains and the caller's writes to its own slices.  A
\* spare cell is left by New's append, whose chains are the receivers of Append
Next ==
    \/ /\ Calls < MaxCalls
       /\ \E xs \in ArgLists, slack \in Slacks : CallNew(xs, slack)
    \/ /\ Calls < MaxCalls
       /\ DeclareZero
    \/ /\ Calls < MaxCalls
       /\ \E i \in ChainIds, xs \in ArgLists : CallAppend(i, xs, 0)
    \/ /\ Calls < MaxCalls
       /\ \E a \in callerArrs : \E j \in 1..Len(heap[a]) : CallerOverwrite(a, j)
    \/ /\ Calls < MaxCalls
       /\ \E i \in ChainIds, h \in HandlerArgs : CallThen(i, h)
    \/ /\ Calls < MaxCalls
       /\ \E i \in ChainIds, fn \in FuncArgs : CallThenFunc(i, fn)

Spec == Init /\ [][Next]_vars

\* SpecServe: chains, the handlers composed from them and the requests
\* these serve, interleaved
NextServe ==
    \/ /\ Calls < ServeMaxCalls
       /\ \E xs \in ServeNewLists : CallNew(xs, 0)
    \/ /\ Calls < ServeMaxCalls
       /\ \E i \in ChainIds, xs \in ServeAppendLists : CallAppend(i, xs, 0)
    \/ /\ Calls < ServeMaxCalls
       /\ \E i \in ChainIds, h \in ServeHandlerArgs : CallThen(i, h)
    \/ /\ Calls < ServeMaxCalls
       /\ \E i \in ChainIds, fn \in ServeFuncArgs : CallThenFunc(i, fn)
    \/ /\ Calls < ServeMaxCalls
       /\ \E k \in ComposedIds : Serve(k)
    \/ \E i \in ReqIds : Enter(i)
    \/ \E i \in ReqIds : Resume(i)
    \/ \E i \in ReqIds : Unwind(i)

SpecServe == Init /\ [][NextServe]_vars

(***************************************************************************)
(* What the claims speak of.                                               *)
(***************************************************************************)
\* the constructors chain i holds now
Contents(i) == Elems(heap, chains[i].c.constructors)

\* the constructors chain i was given: New's arguments, or the receiver's
\* followed by Append's
RECURSIVE Given(_)
Given(i) ==
    IF chains[i].origin = "Append" THEN Given(chains[i].recv) \o chains[i].args
    ELSE chains[i].args

\* chain i comes from New by zero or more Append calls
RECURSIVE FromNew(_)
FromNew(i) ==
    CASE chains[i].origin = "New" -> TRUE
      [] chains[i].origin = "Append" -> FromNew(chains[i].recv)
      [] OTHER -> FALSE

\* c1(c2(...cn(h))), written from the outside in
RECURSIVE Manual(_, _)
Manual(cs, h) == IF cs = <<>> THEN h ELSE <<"mw", Head(cs), Manual(Tail(cs), h)>>

\* the default-multiplexer adapter d
DefaultAdapter == <<"adaptFinal", "DefaultServeMux", <<>>>>

\* the root boundary applied to h
Root(h) == <<"root", "createRootHandler", h>>

IsPrefix(p, q) == Len(p) <= Len(q) /\ SubSeq(q, 1, Len(p)) = p

Pre(cs) == [j \in 1..Len(cs) |-> <<"pre", cs[j]>>]
Post(cs) == [j \in 1..Len(cs) |-> <<"post", cs[Len(cs) + 1 - j]>>]

\* the terminal handler composed handler k was made for
Terminal(k) ==
    IF composed[k].arg = (IF composed[k].via = "Then" THEN NilHandler ELSE HandlerFunc(NilFunc))
    THEN DefaultAdapter ELSE composed[k].arg

Returns(t) == Kind(t) = "adaptFinal" \/ Name(t) \in {"testApp", "app2"}

AllTags(cs) == \A j \in 1..Len(cs) : cs[j] \in Tags
HasGate(cs) == \E j \in 1..Len(cs) : cs[j] \in Gates
FirstGate(cs) == CHOOSE j \in 1..Len(cs) : cs[j] \in Gates /\ \A m \in 1..(j - 1) : cs[m] \notin Gates

Finished(r) == r.status \in {"done", "panicked"}

(***************************************************************************)
(* C1.  New(c1,...,cn).Then(h) with h not nil is the root boundary applied *)
(* to c1(c2(...cn(h))): the first constructor is the outermost wrapper,    *)
(* the last wraps h, and with n = 0 it is the root boundary applied to h.  *)
(***************************************************************************)
C1_ThenIsManualComposition ==
    \A k \in ComposedIds :
        (composed[k].via = "Then" /\ composed[k].arg # NilHandler /\ FromNew(composed[k].chain))
            => composed[k].handler = Root(Manual(Given(composed[k].chain), composed[k].arg))

C1_Witness ==
    \E k \in ComposedIds :
        /\ composed[k].via = "Then"
        /\ composed[k].arg = HandlerFunc("testApp")
        /\ chains[composed[k].chain].origin = "New"
        /\ chains[composed[k].chain].args = <<"t1", "gate">>
        /\ composed[k].handler =
              <<"root", "createRootHandler", <<"mw", "t1", <<"mw", "gate", HandlerFunc("testApp")>>>>>>

(***************************************************************************)
(* C4.  Append leaves the receiver as it was and shares no storage with    *)
(* it: the chain returned holds the receiver's constructors followed by    *)
(* the ones given, the receiver still holds what it was given, and two     *)
(* appends on one receiver do not overwrite each other.                    *)
(***************************************************************************)
C4_AppendCopies ==
    \A i \in ChainIds :
        chains[i].origin = "Append" =>
            /\ Contents(i) = Given(chains[i].recv) \o chains[i].args
            /\ Contents(chains[i].recv) = Given(chains[i].recv)
            /\ chains[i].c.constructors.arr # 0
                  => chains[i].c.constructors.arr # chains[chains[i].recv].c.constructors.arr

C4_Witness ==
    \E a, b \in ChainIds :
        /\ a # b
        /\ chains[a].origin = "Append" /\ chains[b].origin = "Append"
        /\ chains[a].recv = chains[b].recv
        /\ Len(Given(chains[a].recv)) >= 1
        /\ Cap(heap, chains[chains[a].recv].c.constructors) > Len(Given(chains[a].recv))
        /\ chains[a].args = <<"t1">> /\ chains[b].args = <<"gate">>
        /\ Contents(a) = Given(chains[a].recv) \o <<"t1">>
        /\ Contents(b) = Given(chains[b].recv) \o <<"gate">>

(***************************************************************************)
(* C5.  Then(nil) and ThenFunc(nil) give what Then gives for the adapter   *)
(* of the default multiplexer, wrapped by the chain's constructors in the  *)
(* usual order, and ThenFunc(fn) for fn not nil gives what                 *)
(* Then(HandlerFunc(fn)) gives.                                            *)
(***************************************************************************)
C5_NilIsDefaultServeMux ==
    \A k \in ComposedIds :
        LET i == composed[k].chain
            want(h) == IF chains[i].c.finalize = RootFinalizer
                       THEN Root(Manual(Given(i), h)) ELSE PanicValue
        IN /\ (composed[k].via = "Then" /\ composed[k].arg = NilHandler)
                 => composed[k].handler = want(DefaultAdapter)
           /\ (composed[k].via = "ThenFunc" /\ composed[k].arg = HandlerFunc(NilFunc))
                 => composed[k].handler = want(DefaultAdapter)
           /\ (composed[k].via = "ThenFunc" /\ composed[k].arg # HandlerFunc(NilFunc))
                 => composed[k].handler = want(composed[k].arg)

C5_Witness ==
    \E k \in ComposedIds :
        /\ composed[k].via = "ThenFunc"
        /\ composed[k].arg = HandlerFunc(NilFunc)
        /\ Len(Given(composed[k].chain)) >= 2
        /\ Kind(composed[k].handler) = "root"

(***************************************************************************)
(* C8.  A chain made by New(c1,...,cn) holds c1,...,cn in a copy of its    *)
(* own, and still does after any Then, ThenFunc and Append on it and any   *)
(* overwrite of the slice that was passed to New.                          *)
(***************************************************************************)
C8_ChainKeepsItsConstructors ==
    \A i \in ChainIds :
        chains[i].origin = "New" =>
            /\ Contents(i) = chains[i].args
            /\ chains[i].c.constructors.arr \notin callerArrs

C8_Witness ==
    \E i, j \in ChainIds :
        /\ chains[i].origin = "New"
        /\ Len(chains[i].args) = 2
        /\ heap[chains[i].from] # chains[i].args
        /\ chains[j].origin = "Append" /\ chains[j].recv = i
        /\ \E k \in ComposedIds : composed[k].chain = i
        /\ Contents(i) = chains[i].args

(***************************************************************************)
(* C9, as stated: Append's chain has the receiver's finalizer, for every   *)
(* Chain value; every chain got from New by Append calls has the root      *)
(* boundary as its finalizer; Then on such a chain calls no unset          *)
(* finalizer.                                                              *)
(***************************************************************************)
C9_AsStated ==
    /\ \A i \in ChainIds :
          chains[i].origin = "Append" => chains[i].c.finalize = chains[chains[i].recv].c.finalize
    /\ \A i \in ChainIds : FromNew(i) => chains[i].c.finalize = RootFinalizer
    /\ \A k \in ComposedIds : FromNew(composed[k].chain) => composed[k].handler # PanicValue

(***************************************************************************)
(* C9, amended: Append's chain always has the root boundary as its         *)
(* finalizer, set by New, whatever the receiver's is: the receiver's own   *)
(* when the receiver comes from New, and not the receiver's when the       *)
(* receiver is the zero value Chain; every chain got from New by Append    *)
(* calls has the root boundary as its finalizer, and Then on a chain that  *)
(* New or Append returned calls no unset finalizer.                        *)
(***************************************************************************)
C9_AppendSetsRootFinalizer ==
    /\ \A i \in ChainIds :
          chains[i].origin = "Append" =>
              /\ chains[i].c.finalize = RootFinalizer
              /\ FromNew(chains[i].recv) => chains[i].c.finalize = chains[chains[i].recv].c.finalize
              /\ chains[chains[i].recv].origin = "zero"
                    => chains[i].c.finalize # chains[chains[i].recv].c.finalize
    /\ \A i \in ChainIds : FromNew(i) => chains[i].c.finalize = RootFinalizer
    /\ \A k \in ComposedIds :
          chains[composed[k].chain].origin # "zero" => Kind(composed[k].handler) = "root"

C9_Witness ==
    \E i \in ChainIds, k \in ComposedIds :
        /\ chains[i].origin = "Append"
        /\ chains[chains[i].recv].origin = "zero"
        /\ chains[chains[i].recv].c.finalize = NilFinalizer
        /\ chains[i].c.finalize = RootFinalizer
        /\ composed[k].chain = i
        /\ Kind(composed[k].handler) = "root"

(***************************************************************************)
(* Requests.                                                               *)
(***************************************************************************)
\* the constructors and the terminal handler behind request i
ReqChain(i) == Given(composed[reqs[i].h].chain)
ReqTerminal(i) == Terminal(reqs[i].h)

\* the events of a request through wrappers cs that all delegate, around a
\* terminal handler t that returns
FullTrace(cs, t) == Pre(cs) \o <<<<"serve", Name(t)>>>> \o Post(cs)

\* the events of a request whose wrapper at position g answers by itself
GateTrace(cs, g) ==
    Pre(SubSeq(cs, 1, g - 1)) \o <<<<"deny", cs[g]>>>> \o Post(SubSeq(cs, 1, g - 1))

(***************************************************************************)
(* C2.  In a request through a chain c1,...,cn of delegating wrappers the  *)
(* events come one after the other as pre-work of c1,...,cn, the terminal  *)
(* handler, post-work of cn,...,c1, and the terminal handler sees the tags *)
(* in the chain's order: chain t1,t2,t3 over app writes t1 t2 t3 app.      *)
(***************************************************************************)
C2_EventsInChainOrder ==
    \A i \in ReqIds :
        (AllTags(ReqChain(i)) /\ Returns(ReqTerminal(i))) =>
            /\ IsPrefix(reqs[i].events, FullTrace(ReqChain(i), ReqTerminal(i)))
            /\ reqs[i].status \in {"running", "done"}
            /\ reqs[i].status = "done" =>
                  /\ reqs[i].events = FullTrace(ReqChain(i), ReqTerminal(i))
                  /\ Kind(ReqTerminal(i)) = "HandlerFunc"
                        => reqs[i].resp.body = ReqChain(i) \o <<Name(ReqTerminal(i))>>

C2_Witness ==
    \E i \in ReqIds :
        /\ reqs[i].status = "done"
        /\ ReqChain(i) = <<"t1", "t2", "t3">>
        /\ reqs[i].resp.body = <<"t1", "t2", "t3", "testApp">>
        /\ reqs[i].events = <<<<"pre", "t1">>, <<"pre", "t2">>, <<"pre", "t3">>,
                              <<"serve", "testApp">>,
                              <<"post", "t3">>, <<"post", "t2">>, <<"post", "t1">>>>

(***************************************************************************)
(* C3.  Once the root boundary has returned, the context it made for the   *)
(* request is cancelled: after a normal return, after a wrapper that       *)
(* answered by itself, and after a panic out of the wrapped handler.       *)
(***************************************************************************)
C3_ContextCancelledOnReturn ==
    \A i \in ReqIds : Finished(reqs[i]) => (reqs[i].stack = <<>> /\ ctxs[reqs[i].ctx])

C3_Witness ==
    \E i, j \in ReqIds :
        /\ reqs[i].status = "panicked"
        /\ Len(ReqChain(i)) >= 1
        /\ ctxs[reqs[i].ctx]
        /\ reqs[j].status = "done"
        /\ ctxs[reqs[j].ctx]

(***************************************************************************)
(* C6.  When the wrapper at position g returns without calling its inner   *)
(* handler, no wrapper after g and not the terminal handler runs in that   *)
(* request, the wrappers before g still do their post-work, and the        *)
(* request's context is still cancelled.                                   *)
(***************************************************************************)
C6_ShortCircuitStopsTheChain ==
    \A i \in ReqIds :
        HasGate(ReqChain(i)) =>
            LET g == FirstGate(ReqChain(i))
            IN /\ IsPrefix(reqs[i].events, GateTrace(ReqChain(i), g))
               /\ \A e \in 1..Len(reqs[i].events) : reqs[i].events[e][1] # "serve"
               /\ reqs[i].resp.body = <<>>
               /\ reqs[i].status \in {"running", "done"}
               /\ reqs[i].status = "done" =>
                     /\ reqs[i].events = GateTrace(ReqChain(i), g)
                     /\ ctxs[reqs[i].ctx]

C6_Witness ==
    \E i \in ReqIds :
        /\ reqs[i].status = "done"
        /\ ReqChain(i) = <<"t1", "gate", "t2">>
        /\ reqs[i].events = <<<<"pre", "t1">>, <<"deny", "gate">>, <<"post", "t1">>>>
        /\ ctxs[reqs[i].ctx]

(***************************************************************************)
(* C7.  New and Append invoke no constructor, and every call of Then or    *)
(* ThenFunc invokes each constructor of its chain once, from the last to   *)
(* the first, whatever was composed before; the handlers of two calls on   *)
(* one chain are independent: a request to one reaches its terminal        *)
(* handler only.                                                           *)
(***************************************************************************)
RECURSIVE InvokedUpTo(_)
InvokedUpTo(k) ==
    IF k = 0 THEN <<>>
    ELSE InvokedUpTo(k - 1) \o Logged(k, Reverse(Given(composed[k].chain)))

C7_ConstructorsInvokedPerThen ==
    /\ invoked = InvokedUpTo(Len(composed))
    /\ \A k \in ComposedIds :
          composed[k].handler = Root(Manual(Given(composed[k].chain), Terminal(k)))
    /\ \A i \in ReqIds : \A e \in 1..Len(reqs[i].events) :
          reqs[i].events[e][1] \in {"serve", "panic"}
              => reqs[i].events[e][2] = Name(ReqTerminal(i))

C7_Witness ==
    \E i, j \in ReqIds :
        /\ reqs[i].h = 1 /\ reqs[j].h = 2
        /\ composed[1].chain = composed[2].chain
        /\ Len(Given(composed[1].chain)) >= 2
        /\ Terminal(1) = HandlerFunc("testApp") /\ Terminal(2) = HandlerFunc("app2")
        /\ reqs[i].status = "done" /\ reqs[j].status = "done"
        /\ <<"serve", "testApp">> \in {reqs[i].events[e] : e \in 1..Len(reqs[i].events)}
        /\ <<"serve", "app2">> \in {reqs[j].events[e] : e \in 1..Len(reqs[j].events)}
        /\ Len(invoked) = 2 * Len(Given(composed[1].chain))

(***************************************************************************)
(* C10.  Requests served at the same time by one composed handler have     *)
(* each a context of their own, made for them, and a request's context is  *)
(* not cancelled while its wrapped handler runs, whatever the other        *)
(* requests do: only the return of its own root boundary cancels it.       *)
(***************************************************************************)
C10_ContextPerRequest ==
    /\ Len(ctxs) = Len(reqs)
    /\ \A i, j \in ReqIds : i # j => reqs[i].ctx # reqs[j].ctx
    /\ \A i \in ReqIds : ctxs[reqs[i].ctx] <=> Finished(reqs[i])

C10_Witness ==
    \E i, j \in ReqIds :
        /\ i # j
        /\ reqs[i].h = reqs[j].h
        /\ Finished(reqs[i]) /\ ctxs[reqs[i].ctx]
        /\ reqs[j].status = "running" /\ Len(reqs[j].stack) >= 3
        /\ ~ctxs[reqs[j].ctx]

====
